---- MODULE Spec2Model ----
(***************************************************************************)
(* A model of include/diceforge_core.h: DiceForge::BigInt128 (square, mod) *)
(* and the derived sampling operations of DiceForge::Generator<T>          *)
(* (next_unit, next_in_range, next_in_crange, choice, shuffle).            *)
(*                                                                         *)
(* Scale.  TLC's integers are 32 bits wide, so the widths of the source    *)
(* are scaled down with their order kept:                                  *)
(*     uint32_t           32 bits  ->  Bits32   = 3 bits                   *)
(*     uint64_t, int64_t  64 bits  ->  Bits64   = 2 * Bits32 = 6 bits      *)
(*     uint128_t         128 bits  ->  Bits128  = 4 * Bits32 = 12 bits     *)
(*     real_t (double)    53-bit significand -> Mantissa = 4 bits          *)
(* so that, as in the source, a limb is half a word, every uint32_t is a   *)
(* real_t exactly, and a uint64_t is rounded when it becomes a real_t      *)
(* (32 < 53 < 64 becomes 3 < 4 < 6).  A real_t is held as an integer count *)
(* of the format's smallest subnormal, 2^-FracBits.                        *)
(***************************************************************************)
EXTENDS Integers, Sequences, FiniteSets, TLC

\* 2^k for k in 0 .. 30, as a table
Pow2Table ==
    <<1, 2, 4, 8, 16, 32, 64, 128, 256, 512, 1024, 2048, 4096, 8192, 16384,
      32768, 65536, 131072, 262144, 524288, 1048576, 2097152, 4194304,
      8388608, 16777216, 33554432, 67108864, 134217728, 268435456,
      536870912, 1073741824>>
Pow2(k) == Pow2Table[k + 1]

\* typedef unsigned int uint32_t, scaled
Bits32 == 3
Bits64 == 2 * Bits32
Bits128 == 4 * Bits32

\* BigInt128::_2_32 = 1ULL << 32 (an identifier cannot start with _)
Two32 == Pow2(Bits32)
W64 == Pow2(Bits64)
W128 == Pow2(Bits128)

VARIABLES
    data,   \* BigInt128::data[4], limb 0 least significant
    old,    \* data before the last BigInt128 operation
    bop,    \* the last BigInt128 operation: "init", "square", "mod"
    bn      \* the modulus of the last mod(n)

bigvars == <<data, old, bop, bn>>

Limbs == 0 .. 3

\* the value of four limbs, each weighted by 2^32 per index
Value(d) == d[0] + Two32 * (d[1] + Two32 * (d[2] + Two32 * d[3]))

(***************************************************************************)
(* BigInt128::square                                                       *)
(***************************************************************************)
\* one pass of the inner loop body, lines 248-249, in uint64_t arithmetic
SquareStep(product, d, i, j) ==
    LET p1 == [product EXCEPT ![i + j] = (@ + d[i] * d[j]) % W64]
    IN  [p1 EXCEPT ![i + j + 1] = (@ + (p1[i + j] \div Two32)) % W64]

\* the nested loops of lines 246-251, k = 4 * i + j
RECURSIVE SquareLoop(_, _, _)
SquareLoop(product, d, k) ==
    IF k = 16 THEN product
    ELSE SquareLoop(SquareStep(product, d, k \div 4, k % 4), d, k + 1)

\* lines 253-255 with the mask left out
SquareUnmasked(d) ==
    LET product == SquareLoop([i \in 0 .. 7 |-> 0], d, 0)
    IN  [i \in Limbs |-> product[i]]

\* lines 244-255: the product, then each limb masked with 0xFFFFFFFF
SquareOf(d) ==
    LET product == SquareLoop([i \in 0 .. 7 |-> 0], d, 0)
    IN  [i \in Limbs |-> product[i] % Two32]

(***************************************************************************)
(* BigInt128::mod                                                          *)
(***************************************************************************)
\* the loop of lines 270-272, res a uint128_t, i from 3 down to 0
RECURSIVE ModLoop(_, _, _, _)
ModLoop(res, d, n, i) ==
    IF i < 0 THEN res
    ELSE ModLoop(((((res * Two32) % W128) % n) + (d[i] % n)) % n, d, n, i - 1)

\* lines 273-276: the remainder stored in limbs 1 and 0, limbs 3 and 2 zeroed
ModSlow(d, n) ==
    LET res == ModLoop(0, d, n, 3)
    IN  [i \in Limbs |->
            CASE i = 0 -> res % Two32
              [] i = 1 -> (res \div Two32) % W64
              [] OTHER -> 0]

\* lines 267-268: the test for the value exceeding n, else nothing is done
ModOf(d, n) ==
    LET p1 == n \div Two32
        p2 == n % Two32
    IN  IF d[3] > 0 \/ d[2] > 0 \/ d[1] > p1 \/ (d[1] = p1 /\ d[0] > p2)
        THEN ModSlow(d, n)
        ELSE d

Square ==
    /\ data' = SquareOf(data)
    /\ old' = data
    /\ bop' = "square"
    /\ bn' = 0

Mod(n) ==
    /\ data' = ModOf(data, n)
    /\ old' = data
    /\ bop' = "mod"
    /\ bn' = n

(***************************************************************************)
(* real_t arithmetic.  A real_t is an integer count of 2^-FracBits; every  *)
(* operation rounds its exact result to Mantissa significant bits, to the  *)
(* nearest, ties to even, as IEEE 754 does (gradual underflow included:    *)
(* nothing is finer than one unit).                                        *)
(***************************************************************************)
\* typedef double real_t: the significand's width, scaled
Mantissa == 4
\* the exponent of real_t's smallest subnormal, scaled
FracBits == 12

Unit == Pow2(FracBits)
\* the literal 1.0 of next_unit
One == Unit

Abs(a) == IF a < 0 THEN 0 - a ELSE a

\* the least s in lo .. hi with q < 2^(Mantissa + s), by bisection
RECURSIVE Shift(_, _, _)
Shift(q, lo, hi) ==
    IF lo = hi THEN lo
    ELSE LET mid == (lo + hi) \div 2
         IN  IF q < Pow2(Mantissa + mid) THEN Shift(q, lo, mid)
             ELSE Shift(q, mid + 1, hi)

\* a / c to the nearest integer, ties to even, for a >= 0, c > 0
HalfEven(a, c) ==
    LET q == a \div c
        r == a % c
    IN  IF 2 * r < c THEN q
        ELSE IF 2 * r > c THEN q + 1
        ELSE IF q % 2 = 0 THEN q ELSE q + 1

\* the real_t nearest to a / b units
RoundRat(a, b) ==
    LET m == Abs(a)
        s == Shift(m \div b, 0, 30 - Mantissa)
        k == HalfEven(m, b * Pow2(s)) * Pow2(s)
    IN  IF a < 0 THEN 0 - k ELSE k

\* real_t(n), n an integer
ToReal(n) == RoundRat(n * Unit, 1)
RealMul(x, y) == RoundRat(x * y, Unit)
RealDiv(x, y) == RoundRat(x * Unit, y)
RealAdd(x, y) == RoundRat(x + y, 1)
RealSub(x, y) == RoundRat(x - y, 1)
\* floor, as an integer
Floor(x) == x \div Unit
\* real_t(n) for the integers a T or a sum of weights holds, computed once
IntReal == [n \in 0 .. W64 |-> ToReal(n)]

(***************************************************************************)
(* Generator<T>: the pure parts                                            *)
(***************************************************************************)
\* std::numeric_limits<T>().max() for a T of tb bits
TMax(tb) == Pow2(tb) - 1
RawValues(tb) == 0 .. TMax(tb)

I64Min == 0 - Pow2(Bits64 - 1)
I64Max == Pow2(Bits64 - 1) - 1
\* a uint64_t bit pattern read as an int64_t
ToSigned(u) == IF u > I64Max THEN u - W64 ELSE u

\* line 72: generate() / real_t(max), both operands converted to real_t
UnitOf(tb, g) == RealDiv(IntReal[g], IntReal[TMax(tb)])

\* (int64_t)f for an integral real f: undefined when f is no int64_t, where
\* a build yields the minimum (x86), the maximum (saturating) or the low bits
CastI64(f) ==
    IF f >= I64Min /\ f <= I64Max THEN {f}
    ELSE {I64Min, I64Max, ToSigned(f % W64)}

\* line 82, the sum (int64_t)floor(...) + min: in int64_t when T is narrower,
\* in uint64_t when T is uint64_t; the return then makes it an int64_t
RangeSum(tb, c, min) == ToSigned((c + min) % W64)

\* line 82, max - min + 1 in the arithmetic of T
RangeSpan(tb, min, max) == (max - min + 1) % Pow2(tb)

\* line 82: the values next_in_range may return, next_unit() being x

RangeOutcomes(tb, x, min, max) ==
    LET span == RangeSpan(tb, min, max)
        f == Floor(RealMul(x, IntReal[span]))
    IN  {RangeSum(tb, c, min) : c \in CastI64(f)}

\* line 92: (max - min) * next_unit() + min
CRangeOf(x, min, max) == RealAdd(RealMul(RealSub(max, min), x), min)

\* std::upper_bound over a[0 .. n-1] (a 1-indexed here): the binary search
\* for the first position whose element is greater than val (real units)
RECURSIVE UpperBound(_, _, _, _)
UpperBound(a, val, first, len) ==
    IF len <= 0 THEN first
    ELSE LET half == len \div 2
             mid == first + half
         IN  IF val < IntReal[a[mid + 1]]
             THEN UpperBound(a, val, first, half)
             ELSE UpperBound(a, val, mid + 1, len - half - 1)

\* lines 122-127: the prefix sums of the weights
RECURSIVE Cumulative(_, _)
Cumulative(w, k) ==
    IF k = 0 THEN <<>>
    ELSE LET c == Cumulative(w, k - 1)
         IN  Append(c, (IF k = 1 THEN 0 ELSE c[k - 1]) + w[k])

\* line 167 left out: the element stays in the pool
EraseNothing(v, ind) == v

\* line 167: v.erase(v.begin() + ind), ind 0-based
Erase(v, ind) == SubSeq(v, 1, ind) \o SubSeq(v, ind + 2, Len(v))

(***************************************************************************)
(* Generator<T>: the calls, one step per generate().  The weights of the   *)
(* weighted choice are integers (int), its sequence elements opaque.       *)
(***************************************************************************)
\* the longest sequence, the largest weight, the most blocks left allocated
MaxLen == 3
MaxWeight == 2
MaxHeap == 1

Elems == {"a", "b", "c"}
Junk == "junk"

RECURSIVE SeqsUpTo(_, _)
SeqsUpTo(S, n) ==
    IF n = 0 THEN {<<>>}
    ELSE LET shorter == SeqsUpTo(S, n - 1)
         IN  shorter \cup {Append(q, e) : q \in {t \in shorter : Len(t) = n - 1}, e \in S}

\* the sequence weighted choice is given, which it never looks into: a, b, a, ...
Alternating(n) == [k \in 1 .. n |-> IF k % 2 = 1 THEN "a" ELSE "b"]

\* the real arguments next_in_crange is called with: -1, 0, 1, 1.125, 2, 3
CArgs == {0 - Unit, 0, Unit, Unit + Unit \div 8, 2 * Unit, 3 * Unit}

VARIABLES
    tbits,    \* the width of T, fixed when the generator is constructed
    pc,       \* "idle", "loop" (at generate() in next_unit), "done", "crashed"
    op,       \* the call in progress or finished
    status,   \* how the call ended: "ret", "throw"
    ret,      \* the value returned
    amin,     \* min of next_in_range / next_in_crange
    amax,     \* max of next_in_range / next_in_crange
    seq,      \* the caller's sequence [first, last)
    seq0,     \* the sequence as it was when the call began
    weights,  \* [weights_first, weights_last)
    arr,      \* shuffle's temp, shuffle_array's arr
    v,        \* shuffle_array's v
    i,        \* shuffle_array's second loop index
    u,        \* weighted choice: next_unit() * total weight
    idx,      \* the index choice computed, 0-based
    heap,     \* malloc'ed blocks not yet freed
    heap0,    \* heap when the call began
    draws     \* the generate() calls the call has made so far, modulo 2

genvars == <<tbits, pc, op, status, ret, amin, amax, seq, seq0, weights,
             arr, v, i, u, idx, heap, heap0, draws>>
vars == <<bigvars, genvars>>

\* what a call leaves alone until it ends
Begin(name) ==
    /\ pc = "idle"
    /\ op' = name
    /\ heap0' = heap
    /\ draws' = 0
    /\ UNCHANGED <<tbits, bigvars>>

CallUnit ==
    /\ Begin("unit")
    /\ pc' = "loop"
    /\ UNCHANGED <<status, ret, amin, amax, seq, seq0, weights, arr, v, i, u,
                   idx, heap>>

CallRange(min, max) ==
    /\ Begin("range")
    /\ amin' = min /\ amax' = max
    /\ pc' = "loop"
    /\ UNCHANGED <<status, ret, seq, seq0, weights, arr, v, i, u, idx, heap>>

CallCRange(min, max) ==
    /\ Begin("crange")
    /\ amin' = min /\ amax' = max
    /\ pc' = "loop"
    /\ UNCHANGED <<status, ret, seq, seq0, weights, arr, v, i, u, idx, heap>>

\* line 108: next_in_range(0, last - first - 1), the arguments converted to T
CallChoice(s) ==
    /\ Begin("choice")
    /\ seq' = s /\ seq0' = s
    /\ amin' = 0 /\ amax' = (Len(s) - 1) % Pow2(tbits)
    /\ pc' = "loop"
    /\ UNCHANGED <<status, ret, weights, arr, v, i, u, idx, heap>>

\* lines 115-127: the two checks, then malloc and the prefix sums (in arr)
CallWChoice(s, w) ==
    /\ Begin("wchoice")
    /\ seq' = s /\ seq0' = s /\ weights' = w
    /\ IF Len(s) # Len(w) \/ Len(s) = 0
       THEN /\ pc' = "done" /\ status' = "throw"
            /\ UNCHANGED <<arr, heap>>
       ELSE /\ pc' = "loop" /\ status' = status
            /\ heap' = heap + 1
            /\ arr' = Cumulative(w, Len(w))
    /\ UNCHANGED <<ret, amin, amax, v, i, u, idx>>

\* lines 139-143 and 158-165: malloc, the copy into temp, v filled from the
\* first len elements (len a T), and the first next_in_range(0, len - 1);
\* with len = 0 the loops do nothing and lines 144-146 end the call
CallShuffle(s) ==
    LET len == Len(s) % Pow2(tbits)
    IN  /\ Begin("shuffle")
        /\ heap < MaxHeap
        /\ seq' = s /\ seq0' = s
        /\ heap' = heap + 1
        /\ arr' = s
        /\ v' = SubSeq(s, 1, len)
        /\ i' = 0
        /\ IF len = 0
           THEN /\ pc' = "done" /\ status' = "ret"
                /\ UNCHANGED <<amin, amax>>
           ELSE /\ pc' = "loop" /\ status' = status
                /\ amin' = 0 /\ amax' = (len - 1) % Pow2(tbits)
        /\ UNCHANGED <<ret, weights, u, idx>>

\* reading *(first + k) with k outside [0, last - first): undefined; a build
\* either faults or hands back whatever the memory holds
OobReads == {[crash |-> TRUE, val |-> Junk]}
                \cup {[crash |-> FALSE, val |-> e] : e \in Elems \cup {Junk}}

\* the state a step of a call may change
Cur ==
    [pc |-> pc, status |-> status, ret |-> ret, amax |-> amax, seq |-> seq,
     arr |-> arr, v |-> v, i |-> i, u |-> u, idx |-> idx, heap |-> heap]

Ended(c, r) == [c EXCEPT !.pc = "done", !.status = "ret", !.ret = r]

\* line 108: *(first + k)
ChoiceRead(c, k) ==
    IF k >= 0 /\ k < Len(c.seq)
    THEN {Ended([c EXCEPT !.idx = k], c.seq[k + 1])}
    ELSE {IF o.crash THEN [c EXCEPT !.idx = k, !.pc = "crashed"]
          ELSE Ended([c EXCEPT !.idx = k], o.val) : o \in OobReads}

\* lines 128-130: the draw, upper_bound, the read of the element, free
WChoiceEnd(c, x) ==
    LET n == Len(c.arr)
        draw == RealMul(x, IntReal[c.arr[n]])
        k == UpperBound(c.arr, draw, 0, n)
    IN  {IF d.pc = "crashed" THEN d ELSE [d EXCEPT !.heap = c.heap - 1] :
            d \in ChoiceRead([c EXCEPT !.u = draw], k)}

\* lines 144-146: the copy of temp back into the sequence; temp is not freed
ShuffleEnd(c) == [Ended(c, 0) EXCEPT !.seq = c.arr]

\* lines 165-167 with ind = r converted to T, then the loop test of line 164
ShuffleStep(c, tb, r) ==
    LET ind == r % Pow2(tb)
        len == Len(c.seq) % Pow2(tb)
    IN  IF ind < Len(c.v)
        THEN LET d == [c EXCEPT !.arr = [c.arr EXCEPT ![c.i + 1] = c.v[ind + 1]],
                                !.v = Erase(c.v, ind),
                                !.i = c.i + 1]
             IN  IF d.i < len
                 THEN {[d EXCEPT !.amax = (len - d.i - 1) % Pow2(tb)]}
                 ELSE {ShuffleEnd(d)}
        ELSE {[c EXCEPT !.pc = "crashed"]}

\* line 72 and line 92 over the values they are used at, computed once
UnitTable ==
    [tb \in {Bits32, Bits64} |-> [g \in RawValues(tb) |-> UnitOf(tb, g)]]
UnitValues ==
    UNION {{UnitTable[tb][g] : g \in RawValues(tb)} : tb \in {Bits32, Bits64}}
CRangeTable ==
    [x \in UnitValues, min \in CArgs, max \in CArgs |-> CRangeOf(x, min, max)]

\* line 92 without the loop's test
CRangeStepNoTest(c, x) == {Ended(c, CRangeTable[x, amin, c.amax])}

\* lines 90-94: one pass of next_in_crange's loop, next_unit() being x
CRangeStep(c, x) ==
    IF CRangeTable[x, amin, c.amax] = c.amax THEN {c}
    ELSE {Ended(c, CRangeTable[x, amin, c.amax])}

\* what the call does once next_unit() has returned x
AfterUnit(c, x) ==
    CASE op = "unit" -> {Ended(c, x)}
      [] op = "range" ->
            {Ended(c, r) : r \in RangeOutcomes(tbits, x, amin, c.amax)}
      [] op = "crange" -> CRangeStep(c, x)
      [] op = "choice" ->
            UNION {ChoiceRead(c, r) :
                       r \in RangeOutcomes(tbits, x, amin, c.amax)}
      [] op = "wchoice" -> WChoiceEnd(c, x)
      [] op = "shuffle" ->
            UNION {ShuffleStep(c, tbits, r) :
                       r \in RangeOutcomes(tbits, x, amin, c.amax)}

\* one generate() inside next_unit's loop, lines 71-73, returning g
AfterDraw(c, g) ==
    IF UnitTable[tbits][g] = One THEN {c} ELSE AfterUnit(c, UnitTable[tbits][g])

Generate(g) ==
    /\ pc = "loop"
    /\ draws' = 1 - draws
    /\ \E d \in AfterDraw(Cur, g) :
        /\ pc' = d.pc /\ status' = d.status /\ ret' = d.ret
        /\ amax' = d.amax /\ seq' = d.seq /\ arr' = d.arr /\ v' = d.v
        /\ i' = d.i /\ u' = d.u /\ idx' = d.idx /\ heap' = d.heap
    /\ UNCHANGED <<tbits, op, amin, seq0, weights, heap0, bigvars>>

\* the caller takes the result; the generator and the heap stay as they are
Return ==
    /\ pc = "done"
    /\ pc' = "idle" /\ op' = "none" /\ status' = "none" /\ ret' = 0
    /\ amin' = 0 /\ amax' = 0
    /\ seq' = <<>> /\ seq0' = <<>> /\ weights' = <<>>
    /\ arr' = <<>> /\ v' = <<>> /\ i' = 0 /\ u' = 0 /\ idx' = 0
    /\ heap0' = heap /\ draws' = 0
    /\ UNCHANGED <<tbits, heap, bigvars>>

(***************************************************************************)
(* The specifications                                                      *)
(***************************************************************************)
\* BigInt128 alone: square and mod in any order
BigNext ==
    \/ Square /\ UNCHANGED genvars
    \/ \E n \in 1 .. W64 - 1 : Mod(n) /\ UNCHANGED genvars

\* the constructor, line 230, given limbs below 2^32; no generator call
BigInit ==
    /\ data \in [Limbs -> 0 .. Two32 - 1]
    /\ old = data /\ bop = "init" /\ bn = 0
    /\ tbits = Bits64
    /\ pc = "idle" /\ op = "none" /\ status = "none" /\ ret = 0
    /\ amin = 0 /\ amax = 0
    /\ seq = <<>> /\ seq0 = <<>> /\ weights = <<>>
    /\ arr = <<>> /\ v = <<>> /\ i = 0 /\ u = 0 /\ idx = 0
    /\ heap = 0 /\ heap0 = 0 /\ draws = 0

SpecBig == BigInit /\ [][BigNext]_vars

\* a generator of either width, constructed and idle; the BigInt128 at rest
GenInit ==
    /\ data = [k \in Limbs |-> 0]
    /\ old = data /\ bop = "init" /\ bn = 0
    /\ tbits \in {Bits32, Bits64}
    /\ pc = "idle" /\ op = "none" /\ status = "none" /\ ret = 0
    /\ amin = 0 /\ amax = 0
    /\ seq = <<>> /\ seq0 = <<>> /\ weights = <<>>
    /\ arr = <<>> /\ v = <<>> /\ i = 0 /\ u = 0 /\ idx = 0
    /\ heap = 0 /\ heap0 = 0 /\ draws = 0

GenerateAny == \E g \in RawValues(tbits) : Generate(g)

\* the numeric calls: next_unit, next_in_range, next_in_crange
NumNext ==
    \/ CallUnit
    \/ \E min \in RawValues(tbits) : \E max \in min .. TMax(tbits) :
            CallRange(min, max)
    \/ \E min \in CArgs : \E max \in CArgs : CallCRange(min, max)
    \/ GenerateAny
    \/ Return

SpecNum == GenInit /\ [][NumNext]_vars

\* the two calls that loop on a rejected value, next_unit and next_in_crange,
\* with a generator that keeps answering: it eventually produces a raw value
\* other than the maximum of T, and eventually the raw value 0
LoopNext ==
    \/ CallUnit
    \/ \E min \in CArgs : \E max \in CArgs : CallCRange(min, max)
    \/ GenerateAny
    \/ Return

GenerateNonMax == \E g \in 0 .. TMax(tbits) - 1 : Generate(g)
GenerateZero == Generate(0)

SpecLoop ==
    GenInit /\ [][LoopNext]_vars /\ WF_vars(GenerateNonMax) /\ WF_vars(GenerateZero)

\* the calls on sequences: choice, weighted choice, shuffle
SeqNext ==
    \/ \E s \in SeqsUpTo(Elems, MaxLen) : CallChoice(s)
    \/ \E n \in 0 .. MaxLen :
            \E w \in SeqsUpTo(0 .. MaxWeight, MaxLen) : CallWChoice(Alternating(n), w)
    \/ \E s \in SeqsUpTo(Elems, MaxLen) : CallShuffle(s)
    \/ GenerateAny
    \/ Return

SpecSeq == GenInit /\ [][SeqNext]_vars

(***************************************************************************)
(* The claims                                                              *)
(***************************************************************************)
\* C1 (as claimed): after mod(n) the value is (old value mod n), in limbs 0, 1
C1_ModReduces ==
    bop = "mod" =>
        /\ Value(data) = Value(old) % bn
        /\ data[2] = 0 /\ data[3] = 0

\* C2 (as claimed): after square() the value is (old value)^2 mod 2^128
C2_SquareTruncates ==
    bop = "square" => Value(data) = (Value(old) * Value(old)) % W128

\* C3: every limb stays in [0, 2^32) after any sequence of square and mod
C3_LimbsInRange == \A k \in Limbs : data[k] \in 0 .. Two32 - 1

C3_Witness ==
    /\ bop = "mod" /\ bn > 1
    /\ Value(old) > bn
    /\ \E k \in Limbs : old[k] = Two32 - 1
    /\ data[1] > 0

\* the call named has ended, by a return, an exception or a fault
Over(name) == op = name /\ pc \in {"done", "crashed"}

\* C4 (as claimed): next_in_range(min, max), min <= max, returns r with
\* min <= r <= max, and min when min == max
C4_RangeWithin ==
    (op = "range" /\ pc = "done") =>
        /\ amin <= ret /\ ret <= amax
        /\ amin = amax => ret = amin

\* C5 (as claimed): a returning next_in_crange(min, max), min < max, yields x
\* with min < x < max
C5_CRangeOpen ==
    (op = "crange" /\ pc = "done" /\ amin < amax) => (amin < ret /\ ret < amax)

\* C5 (amended): a returning next_in_crange(min, max), min < max, yields x
\* with min <= x < max: never max, never outside [min, max), and min itself
\* when next_unit() is 0
C5_CRangeHalfOpen ==
    (op = "crange" /\ pc = "done" /\ amin < amax) => (amin <= ret /\ ret < amax)

C5_Witness == op = "crange" /\ pc = "done" /\ amin < amax /\ ret = amin

\* the first index whose cumulative weight strictly exceeds the draw, or the
\* length when there is none
FirstExceeding(cum, draw) ==
    LET above == {k \in 0 .. Len(cum) - 1 : cum[k + 1] * Unit > draw}
    IN  IF above = {} THEN Len(cum)
        ELSE CHOOSE k \in above : \A j \in above : k <= j

\* C6 (as claimed): weighted choice over a non-empty sequence with as many
\* non-negative weights returns the element at the first index whose cumulative
\* weight strictly exceeds u; that index is inside the sequence and its weight
\* is not 0
C6_WeightedIndex ==
    (Over("wchoice") /\ status # "throw") =>
        /\ pc = "done"
        /\ idx = FirstExceeding(arr, u)
        /\ idx \in 0 .. Len(seq) - 1
        /\ weights[idx + 1] # 0
        /\ ret = seq[idx + 1]

Count(s, e) == Cardinality({k \in DOMAIN s : s[k] = e})
IsPermutation(s, t) ==
    /\ Len(s) = Len(t)
    /\ \A e \in Elems \cup {Junk} : Count(s, e) = Count(t, e)

\* C7: shuffle ends, and leaves the sequence a permutation of its input: the
\* same length and the same multiset of elements
C7_ShufflePermutes ==
    /\ op = "shuffle" => pc # "crashed"
    /\ (op = "shuffle" /\ pc = "done") => IsPermutation(seq, seq0)

C7_Witness ==
    /\ op = "shuffle" /\ pc = "done"
    /\ seq0 = <<"a", "b", "c">> /\ seq = <<"c", "a", "b">>

\* C8 (as claimed): choice on an empty sequence fails, in both overloads
C8_EmptyChoiceFails ==
    ((Over("choice") \/ (Over("wchoice") /\ weights = <<>>)) /\ seq0 = <<>>)
        => status = "throw"

\* C9 (as claimed): when weighted choice or shuffle returns or fails, every
\* scratch buffer the call allocated has been freed
C9_ScratchReleased ==
    ((op = "wchoice" \/ op = "shuffle") /\ pc = "done") => heap = heap0

InLoop == pc = "loop" /\ (op = "unit" \/ op = "crange")

\* C10 (as claimed): every call of next_unit() and of next_in_crange(min, max),
\* for any arguments, eventually returns
C10_AlwaysReturns == InLoop ~> (pc = "done")

====
